---- MODULE Spec2Model ----
(***************************************************************************)
(* Model of the node-locked licensing subsystem ("paywall") of             *)
(* src/src/app/main.cpp: fingerprint resolver, XOR/base64 codec, license   *)
(* record and its JSON form, the two persisted artifacts (blob + anchor),  *)
(* the validator, the activation flow and the paywall gate.                *)
(*                                                                         *)
(* Text (QString / QByteArray) is a sequence of character codes.  The      *)
(* model's files hold ASCII only, so a code is also a byte.                *)
(***************************************************************************)
EXTENDS Integers, Sequences, FiniteSets, TLC

(***************************************************************************)
(* Text helpers                                                            *)
(***************************************************************************)

\* The printable ASCII characters of codes 32 (space) to 95 (_), in order.
Printable ==
    << " ", "!", "\"", "#", "$", "%", "&", "'", "(", ")", "*", "+", ",", "-", ".", "/",
       "0", "1", "2", "3", "4", "5", "6", "7", "8", "9", ":", ";", "<", "=", ">", "?",
       "@", "A", "B", "C", "D", "E", "F", "G", "H", "I", "J", "K", "L", "M", "N", "O",
       "P", "Q", "R", "S", "T", "U", "V", "W", "X", "Y", "Z", "[", "\\", "]", "^", "_" >>

\* The characters of codes 97 (a) to 126 (~), in order.
PrintableLower ==
    << "a", "b", "c", "d", "e", "f", "g", "h", "i", "j", "k", "l", "m", "n", "o",
       "p", "q", "r", "s", "t", "u", "v", "w", "x", "y", "z", "{", "|", "}", "~" >>

\* Character code of a one-character string (line feed and tab included).
OrdTable ==
    [c \in {Printable[i] : i \in 1..Len(Printable)}
            \cup {PrintableLower[i] : i \in 1..Len(PrintableLower)}
            \cup {"\n", "\t"} |->
        IF c = "\n" THEN 10
        ELSE IF c = "\t" THEN 9
        ELSE IF \E i \in 1..Len(Printable) : Printable[i] = c
             THEN 31 + (CHOOSE i \in 1..Len(Printable) : Printable[i] = c)
             ELSE 96 + (CHOOSE i \in 1..Len(PrintableLower) : PrintableLower[i] = c)]

Ord(c) == OrdTable[c]

\* A text literal: the tuple of its characters, as codes.
\* A function on 1..n as a tuple.
Tup(f) == f \o <<>>

S(t) == Tup([i \in 1..Len(t) |-> Ord(t[i])])

\* Concatenation of a tuple of texts.
RECURSIVE Cat(_)
Cat(ts) == IF ts = <<>> THEN <<>> ELSE Head(ts) \o Cat(Tail(ts))

\* Does text `pat` occur in `s` at position i (1-based)?
MatchesAt(s, pat, i) ==
    /\ i >= 1
    /\ i + Len(pat) - 1 <= Len(s)
    /\ \A k \in 1..Len(pat) : s[i + k - 1] = pat[k]

\* QString::contains / QString::startsWith
Contains(s, pat) == \E i \in 1..(Len(s) - Len(pat) + 1) : MatchesAt(s, pat, i)

StartsWith(s, pat) == MatchesAt(s, pat, 1)

\* QChar::isSpace on ASCII, also the regular expression class \s:
\* tab, line feed, vertical tab, form feed, carriage return, space.
IsSpace(c) == c \in {9, 10, 11, 12, 13, 32}

\* QString::trimmed: leading and trailing whitespace removed.
Trimmed(s) ==
    LET idx == {i \in 1..Len(s) : ~IsSpace(s[i])}
    IN IF idx = {} THEN <<>>
       ELSE LET lo == CHOOSE i \in idx : \A j \in idx : i <= j
                hi == CHOOSE i \in idx : \A j \in idx : i >= j
            IN SubSeq(s, lo, hi)

\* Decimal digits of n, zero-padded to width w.
RECURSIVE Digits(_, _)
Digits(n, w) == IF w = 0 THEN <<>> ELSE Digits(n \div 10, w - 1) \o <<48 + (n % 10)>>

IsDigit(c) == c >= 48 /\ c <= 57

\* Value of a digit text (all characters digits).
RECURSIVE Number(_)
Number(s) == IF s = <<>> THEN 0 ELSE 10 * Number(SubSeq(s, 1, Len(s) - 1)) + (s[Len(s)] - 48)

(***************************************************************************)
(* Obfuscation codec: xorEncrypt / xorDecrypt / generateKeyFromMac         *)
(***************************************************************************)

\* Bitwise exclusive-or of two bytes, bit by bit.
RECURSIVE XorBits(_, _)
XorBits(a, b) ==
    IF a = 0 THEN b
    ELSE IF b = 0 THEN a
    ELSE 2 * XorBits(a \div 2, b \div 2) + ((a + b) % 2)

\* The same for ASCII bytes, tabulated.
XorAscii == [a \in 0..127 |-> [b \in 0..127 |-> XorBits(a, b)]]

Xor(a, b) == IF a < 128 /\ b < 128 THEN XorAscii[a][b] ELSE XorBits(a, b)

\* bytes[i] ^ keyBytes[i % keyBytes.size()] for every i (0-based in the code).
XorBytes(bytes, keyBytes) ==
    Tup([i \in 1..Len(bytes) |-> Xor(bytes[i], keyBytes[((i - 1) % Len(keyBytes)) + 1])])

\* QString::toUtf8 / toLatin1 on the model's ASCII text: one byte per character;
\* a character outside the range becomes '?'.
ToBytes(s) == Tup([i \in 1..Len(s) |-> IF s[i] < 128 THEN s[i] ELSE 63])

\* QString::fromUtf8 / fromLatin1: an ASCII byte is its character; any other byte
\* is shown as the replacement character U+FFFD (multi-byte sequences do not
\* arise from the model's ASCII files).
FromBytes(b) == Tup([i \in 1..Len(b) |-> IF b[i] < 128 THEN b[i] ELSE 65533])

\* The base64 alphabet: the character of a 6-bit value.
B64Char(v) ==
    IF v < 26 THEN 65 + v
    ELSE IF v < 52 THEN 97 + (v - 26)
    ELSE IF v < 62 THEN 48 + (v - 52)
    ELSE IF v = 62 THEN 43
    ELSE 47

\* The 6-bit value of a base64 character, -1 for any other character ('=' too).
B64Value(c) ==
    IF c >= 65 /\ c <= 90 THEN c - 65
    ELSE IF c >= 97 /\ c <= 122 THEN c - 97 + 26
    ELSE IF c >= 48 /\ c <= 57 THEN c - 48 + 52
    ELSE IF c = 43 THEN 62
    ELSE IF c = 47 THEN 63
    ELSE -1

\* QByteArray::toBase64: 3 bytes to 4 characters, '=' padding.
ToBase64(bytes) ==
    LET n == Len(bytes)
        At(i) == IF i <= n THEN bytes[i] ELSE 0
        Sextet(g, k) ==
            IF k = 0 THEN At(3 * g + 1) \div 4
            ELSE IF k = 1 THEN (At(3 * g + 1) % 4) * 16 + (At(3 * g + 2) \div 16)
            ELSE IF k = 2 THEN (At(3 * g + 2) % 16) * 4 + (At(3 * g + 3) \div 64)
            ELSE At(3 * g + 3) % 64
        OutLen == 4 * ((n + 2) \div 3)
    IN Tup([j \in 1..OutLen |->
              LET g == (j - 1) \div 4
                  k == (j - 1) % 4
              IN IF 3 * g + k > n THEN 61 ELSE B64Char(Sextet(g, k))])

\* The 6-bit values of the base64 characters of s, in order.
B64Values(s) ==
    LET kept == SelectSeq(s, LAMBDA c : B64Value(c) # -1)
    IN Tup([i \in 1..Len(kept) |-> B64Value(kept[i])])

\* QByteArray::fromBase64 (default options): characters outside the alphabet
\* are skipped; every 8 accumulated bits give one byte.
FromBase64(s) ==
    LET v == B64Values(s)
        OutLen == (6 * Len(v)) \div 8
        Byte(j) ==
            \* bits 8(j-1) .. 8j-1 of the sextet stream
            LET first == (8 * (j - 1)) \div 6 + 1
                off == (8 * (j - 1)) % 6
                pair == v[first] * 64 + v[first + 1]
            IN IF off = 0 THEN pair \div 16
               ELSE IF off = 2 THEN (pair \div 4) % 256
               ELSE pair % 256
    IN Tup([j \in 1..OutLen |-> Byte(j)])

xorEncrypt(data, key) ==
    LET bytes == ToBytes(data)
        keyBytes == ToBytes(key)
    IN IF keyBytes = <<>> THEN <<>>
       ELSE FromBytes(ToBase64(XorBytes(bytes, keyBytes)))

\* A decoder that leaves out the exclusive-or.
xorDecryptWithoutXor(data, key) ==
    LET bytes == FromBase64(ToBytes(data))
        keyBytes == ToBytes(key)
    IN IF keyBytes = <<>> \/ bytes = <<>> THEN <<>>
       ELSE FromBytes(bytes)

\* A decoder that uses the first byte of the key at every position.
xorDecryptFirstKeyByte(data, key) ==
    LET bytes == FromBase64(ToBytes(data))
        keyBytes == ToBytes(key)
    IN IF keyBytes = <<>> \/ bytes = <<>> THEN <<>>
       ELSE FromBytes(XorBytes(bytes, <<keyBytes[1]>>))

xorDecrypt(data, key) ==
    LET bytes == FromBase64(ToBytes(data))
        keyBytes == ToBytes(key)
    IN IF keyBytes = <<>> \/ bytes = <<>> THEN <<>>
       ELSE FromBytes(XorBytes(bytes, keyBytes))

\* The compiled-in salt "|QBIT_PAYWALL_SALT_2024|".
Salt ==
    S(<<"|", "Q", "B", "I", "T", "_", "P", "A", "Y", "W", "A", "L", "L", "_",
        "S", "A", "L", "T", "_", "2", "0", "2", "4", "|">>)

generateKeyFromMac(mac) == mac \o Salt

(***************************************************************************)
(* QDateTime: a day number and the milliseconds of that day.  Day 0 is     *)
(* 1 January of BaseYear; years have 365 days (no leap day falls inside    *)
(* the model's range).  An invalid QDateTime has valid = FALSE.            *)
(***************************************************************************)

BaseYear == 2026

MsPerDay == 86400000

InvalidDateTime == [valid |-> FALSE, day |-> 0, ms |-> 0]

DateTime(d, m) == [valid |-> TRUE, day |-> d, ms |-> m]

\* QDateTime::operator< : an invalid value precedes every valid one.
Precedes(a, b) ==
    IF ~a.valid THEN b.valid
    ELSE IF ~b.valid THEN FALSE
    ELSE a.day < b.day \/ (a.day = b.day /\ a.ms < b.ms)

\* a <= b, which Qt derives as !(b < a)
AtMost(a, b) == ~Precedes(b, a)

\* QDateTime::addDays
AddDays(t, n) == IF t.valid THEN DateTime(t.day + n, t.ms) ELSE t

MonthLengths == <<31, 28, 31, 30, 31, 30, 31, 31, 30, 31, 30, 31>>

\* Days of the year before month m (1..12).
RECURSIVE DaysBefore(_)
DaysBefore(m) == IF m = 1 THEN 0 ELSE DaysBefore(m - 1) + MonthLengths[m - 1]

\* Month (1..12) of the 0-based day of the year.
MonthOf(doy) == CHOOSE m \in 1..12 : DaysBefore(m) <= doy /\ doy < DaysBefore(m) + MonthLengths[m]

\* QDateTime::toString(Qt::ISODate) of a local time: "yyyy-MM-ddTHH:mm:ss".
\* The milliseconds are not written.  An invalid value gives the empty text.
IsoDate(t) ==
    IF ~t.valid THEN <<>>
    ELSE LET year == BaseYear + (t.day \div 365)
             doy == t.day % 365
             month == MonthOf(doy)
             dom == doy - DaysBefore(month) + 1
             secs == t.ms \div 1000
         IN Cat(<< Digits(year, 4), S(<<"-">>), Digits(month, 2), S(<<"-">>), Digits(dom, 2),
                   S(<<"T">>), Digits(secs \div 3600, 2), S(<<":">>),
                   Digits((secs \div 60) % 60, 2), S(<<":">>), Digits(secs % 60, 2) >>)

\* QDateTime::fromString(text, Qt::ISODate) on the form IsoDate writes; any
\* other text gives an invalid QDateTime.
FromIsoDate(s) ==
    LET digitsAt == {1, 2, 3, 4, 6, 7, 9, 10, 12, 13, 15, 16, 18, 19}
        shape == /\ Len(s) = 19
                 /\ \A i \in digitsAt : IsDigit(s[i])
                 /\ s[5] = Ord("-") /\ s[8] = Ord("-") /\ s[11] = Ord("T")
                 /\ s[14] = Ord(":") /\ s[17] = Ord(":")
        year == Number(SubSeq(s, 1, 4))
        month == Number(SubSeq(s, 6, 7))
        dom == Number(SubSeq(s, 9, 10))
        hh == Number(SubSeq(s, 12, 13))
        mm == Number(SubSeq(s, 15, 16))
        ss == Number(SubSeq(s, 18, 19))
    IN IF ~shape THEN InvalidDateTime
       ELSE IF month < 1 \/ month > 12 \/ hh > 23 \/ mm > 59 \/ ss > 59 THEN InvalidDateTime
       ELSE IF dom < 1 \/ dom > MonthLengths[month] THEN InvalidDateTime
       ELSE DateTime((year - BaseYear) * 365 + DaysBefore(month) + dom - 1,
                     ((hh * 60 + mm) * 60 + ss) * 1000)

(***************************************************************************)
(* LicenseData and its JSON form                                           *)
(***************************************************************************)

\* A default-constructed LicenseData.
EmptyLicense ==
    [email |-> <<>>, mac |-> <<>>, uuid |-> <<>>,
     issued |-> InvalidDateTime, expires |-> InvalidDateTime]

\* LicenseData::isEmpty
isEmpty(license) == license.email = <<>>

Quote == Ord("\"")

Backslash == Ord("\\")

\* A JSON string literal: quotes and backslashes escaped.
RECURSIVE JsonEscape(_)
JsonEscape(s) ==
    IF s = <<>> THEN <<>>
    ELSE (IF Head(s) \in {Quote, Backslash} THEN <<Backslash, Head(s)>> ELSE <<Head(s)>>)
         \o JsonEscape(Tail(s))

JsonString(s) == <<Quote>> \o JsonEscape(s) \o <<Quote>>

JsonMember(key, value) == JsonString(key) \o S(<<":">>) \o JsonString(value)

KeyEmail == S(<<"e", "m", "a", "i", "l">>)

KeyExpires == S(<<"e", "x", "p", "i", "r", "e", "s">>)

KeyIssued == S(<<"i", "s", "s", "u", "e", "d">>)

KeyMac == S(<<"m", "a", "c">>)

KeyUuid == S(<<"u", "u", "i", "d">>)

\* LicenseData::toJsonString: the compact form of a QJsonObject, whose keys
\* are written in sorted order.
toJsonString(license) ==
    Cat(<< S(<<"{">>),
           JsonMember(KeyEmail, license.email), S(<<",">>),
           JsonMember(KeyExpires, IsoDate(license.expires)), S(<<",">>),
           JsonMember(KeyIssued, IsoDate(license.issued)), S(<<",">>),
           JsonMember(KeyMac, license.mac), S(<<",">>),
           JsonMember(KeyUuid, license.uuid),
           S(<<"}">>) >>)

NoParse == [ok |-> FALSE, val |-> <<>>, next |-> 0]

\* Reads a JSON string whose opening quote is before position i.
RECURSIVE ScanString(_, _, _)
ScanString(s, i, acc) ==
    IF i > Len(s) THEN NoParse
    ELSE IF s[i] = Quote THEN [ok |-> TRUE, val |-> acc, next |-> i + 1]
    ELSE IF s[i] = Backslash
         THEN IF i + 1 <= Len(s) /\ s[i + 1] \in {Quote, Backslash, Ord("/")}
              THEN ScanString(s, i + 2, Append(acc, s[i + 1]))
              ELSE NoParse
    ELSE ScanString(s, i + 1, Append(acc, s[i]))

ParseString(s, i) ==
    IF i <= Len(s) /\ s[i] = Quote THEN ScanString(s, i + 1, <<>>) ELSE NoParse

\* Reads the members "key":"value" of an object from position i on, up to the
\* closing brace, which must end the text.  obj maps each key read to its value.
RECURSIVE ParseMembers(_, _, _)
ParseMembers(s, i, obj) ==
    LET key == ParseString(s, i)
        value == IF key.ok /\ key.next <= Len(s) /\ s[key.next] = Ord(":")
                 THEN ParseString(s, key.next + 1)
                 ELSE NoParse
        after == value.next
        found == [k \in (DOMAIN obj) \cup {key.val} |->
                     IF k = key.val THEN value.val ELSE obj[k]]
    IN IF ~key.ok \/ ~value.ok \/ after > Len(s) THEN [ok |-> FALSE, obj |-> obj]
       ELSE IF s[after] = Ord("}") THEN [ok |-> after = Len(s), obj |-> found]
       ELSE IF s[after] = Ord(",") THEN ParseMembers(s, after + 1, found)
       ELSE [ok |-> FALSE, obj |-> obj]

\* QJsonDocument::fromJson(...).isObject() and the object: an object whose
\* members are all strings, written without white space.
ParseObject(s) ==
    IF Len(s) >= 2 /\ s[1] = Ord("{")
    THEN IF Len(s) = 2 /\ s[2] = Ord("}")
         THEN [ok |-> TRUE, obj |-> <<>>]
         ELSE ParseMembers(s, 2, <<>>)
    ELSE [ok |-> FALSE, obj |-> <<>>]

\* obj.value(key).toString()
JsonValue(obj, key) == IF key \in DOMAIN obj THEN obj[key] ELSE <<>>

\* LicenseData::fromJsonString
fromJsonString(json) ==
    LET doc == ParseObject(FromBytes(ToBytes(json)))
    IN IF doc.ok
       THEN [email |-> JsonValue(doc.obj, KeyEmail),
             mac |-> JsonValue(doc.obj, KeyMac),
             uuid |-> JsonValue(doc.obj, KeyUuid),
             issued |-> FromIsoDate(JsonValue(doc.obj, KeyIssued)),
             expires |-> FromIsoDate(JsonValue(doc.obj, KeyExpires))]
       ELSE EmptyLicense

(***************************************************************************)
(* Fingerprint resolver.  An interface is [loopback, hw]: the IsLoopBack   *)
(* flag and hardwareAddress() of one QNetworkInterface;                    *)
(* QNetworkInterface::allInterfaces() is a sequence of them.               *)
(***************************************************************************)

ZeroMac ==
    S(<<"0", "0", ":", "0", "0", ":", "0", "0", ":", "0", "0", ":", "0", "0", ":", "0", "0">>)

\* Is this interface's address one getFirstMacAddress returns?
Usable(interface) ==
    /\ ~interface.loopback
    /\ interface.hw # <<>>
    /\ interface.hw # ZeroMac

\* A resolver that does not skip loopback interfaces.
getFirstAddressOfAny(ifs) ==
    LET ok == {i \in 1..Len(ifs) : ifs[i].hw # <<>> /\ ifs[i].hw # ZeroMac}
    IN IF ok = {} THEN <<>>
       ELSE ifs[CHOOSE i \in ok : \A j \in ok : i <= j].hw

getFirstMacAddress(ifs) ==
    LET ok == {i \in 1..Len(ifs) : Usable(ifs[i])}
    IN IF ok = {} THEN <<>>
       ELSE ifs[CHOOSE i \in ok : \A j \in ok : i <= j].hw

\* A hardware check that any interface satisfies.
systemHasAnyInterface(ifs, targetMac) == ifs # <<>>

\* A hardware check that looks at the first interface only.
systemHasMacOnFirstInterface(ifs, targetMac) ==
    targetMac # <<>> /\ ifs # <<>> /\ ifs[1].hw = targetMac

systemHasMacAddress(ifs, targetMac) ==
    IF targetMac = <<>> THEN FALSE
    ELSE \E i \in 1..Len(ifs) : ifs[i].hw = targetMac

(***************************************************************************)
(* Split persistence store.  A file is [exists, text].                     *)
(***************************************************************************)

NoFile == [exists |-> FALSE, text |-> <<>>]

File(text) == [exists |-> TRUE, text |-> text]

\* getConfigDir: the per-user config directory exists afterwards when it did
\* before or mkpath succeeded.
getConfigDir(dirExists, mkpathOk) == dirExists \/ mkpathOk

\* The marker's fixed part, "# PAYWALL_UUID: ".
MarkerPrefix ==
    S(<<"#", " ", "P", "A", "Y", "W", "A", "L", "L", "_", "U", "U", "I", "D", ":", " ">>)

\* The character class [a-fA-F0-9\-].
IsIdChar(c) ==
    \/ c >= Ord("a") /\ c <= Ord("f")
    \/ c >= Ord("A") /\ c <= Ord("F")
    \/ IsDigit(c)
    \/ c = Ord("-")

\* Last position of the run of id characters that starts at i (i - 1: none).
RECURSIVE IdRunEnd(_, _)
IdRunEnd(s, i) == IF i <= Len(s) /\ IsIdChar(s[i]) THEN IdRunEnd(s, i + 1) ELSE i - 1

\* Last position of the run of white space that starts at i (i - 1: none).
RECURSIVE SpaceRunEnd(_, _)
SpaceRunEnd(s, i) == IF i <= Len(s) /\ IsSpace(s[i]) THEN SpaceRunEnd(s, i + 1) ELSE i - 1

\* The positions where "# PAYWALL_UUID: [a-fA-F0-9\-]+" matches.  The prefix
\* starts with '#', which occurs nowhere else in a match, so matches never
\* overlap and the left-to-right scan of the regular expression engine finds
\* every one of them.
MarkerStarts(s) ==
    {i \in 1..Len(s) :
        /\ MatchesAt(s, MarkerPrefix, i)
        /\ i + Len(MarkerPrefix) <= Len(s)
        /\ IsIdChar(s[i + Len(MarkerPrefix)])}

\* End of the match of "# PAYWALL_UUID: [a-fA-F0-9\-]+\s*" that starts at i.
MarkerEnd(s, i) == SpaceRunEnd(s, IdRunEnd(s, i + Len(MarkerPrefix)) + 1)

\* work without the matches of orig that start at starts; work is orig with
\* the matches after those already removed.
RECURSIVE RemoveSpans(_, _, _)
RemoveSpans(orig, work, starts) ==
    IF starts = {} THEN work
    ELSE LET i == CHOOSE x \in starts : \A y \in starts : y <= x
             e == MarkerEnd(orig, i)
         IN RemoveSpans(orig,
                        SubSeq(work, 1, i - 1) \o SubSeq(work, e + 1, Len(work)),
                        starts \ {i})

\* QString::remove(uuidPattern): every match removed, in one pass.
RemoveMarkers(s) == RemoveSpans(s, s, MarkerStarts(s))

\* The marker line written for uuid.
UuidComment(uuid) == MarkerPrefix \o uuid \o S(<<"\n">>)

UuidLength == 36

\* saveUuidToConfig(uuid) on the anchor file.  createOk: a missing file (and
\* its directory) can be created; openOk: the file can be opened read-write.
\* Gives the value returned and the file afterwards.
saveUuidToConfig(uuid, anchorFile, createOk, openOk) ==
    IF uuid = <<>> THEN [ok |-> FALSE, file |-> anchorFile]
    ELSE IF ~anchorFile.exists /\ ~createOk THEN [ok |-> FALSE, file |-> anchorFile]
    ELSE LET present == IF anchorFile.exists THEN anchorFile ELSE File(<<>>)
         IN IF ~openOk THEN [ok |-> FALSE, file |-> present]
            ELSE LET content == present.text
                     stripped == RemoveMarkers(content)
                     uuidComment == UuidComment(uuid)
                     newContent == IF StartsWith(stripped, uuidComment)
                                   THEN stripped
                                   ELSE uuidComment \o stripped
                 IN [ok |-> TRUE, file |-> File(newContent)]

\* A reader that takes the last marker of the anchor file, not the first.
loadLastUuidFromConfig(anchorFile) ==
    IF ~anchorFile.exists THEN <<>>
    ELSE LET content == anchorFile.text
             starts == MarkerStarts(content)
         IN IF starts = {} THEN <<>>
            ELSE LET final == CHOOSE i \in starts : \A j \in starts : j <= i
                     from == final + Len(MarkerPrefix)
                     uuid == Trimmed(SubSeq(content, from, IdRunEnd(content, from)))
                 IN IF Contains(uuid, S(<<"-">>)) /\ Len(uuid) = UuidLength
                    THEN uuid
                    ELSE <<>>

\* loadUuidFromConfig on the anchor file.
loadUuidFromConfig(anchorFile) ==
    IF ~anchorFile.exists THEN <<>>
    ELSE LET content == anchorFile.text
             starts == MarkerStarts(content)
         IN IF starts = {} THEN <<>>
            ELSE LET first == CHOOSE i \in starts : \A j \in starts : i <= j
                     from == first + Len(MarkerPrefix)
                     uuid == Trimmed(SubSeq(content, from, IdRunEnd(content, from)))
                 IN IF Contains(uuid, S(<<"-">>)) /\ Len(uuid) = UuidLength
                    THEN uuid
                    ELSE <<>>

\* A writer that reports success once the blob is written, whatever became
\* of the anchor.
saveLicenseBlobOnly(license, dirExists, blobFile, anchorFile, mkpathOk, blobOpenOk, createOk, openOk) ==
    LET unchanged == [ok |-> FALSE, dir |-> dirExists, blob |-> blobFile, anchor |-> anchorFile]
        encrypted == xorEncrypt(toJsonString(license), generateKeyFromMac(license.mac))
        dir == getConfigDir(dirExists, mkpathOk)
        uuidSaved == saveUuidToConfig(license.uuid, anchorFile, createOk, openOk)
    IN IF isEmpty(license) THEN unchanged
       ELSE IF encrypted = <<>> THEN unchanged
       ELSE IF ~(dir /\ blobOpenOk) THEN [unchanged EXCEPT !.dir = dir]
       ELSE [ok |-> TRUE, dir |-> dir, blob |-> File(encrypted), anchor |-> uuidSaved.file]

\* A writer that puts the previous blob back when the anchor write fails.
saveLicenseWithRollback(license, dirExists, blobFile, anchorFile, mkpathOk, blobOpenOk, createOk, openOk) ==
    LET unchanged == [ok |-> FALSE, dir |-> dirExists, blob |-> blobFile, anchor |-> anchorFile]
        encrypted == xorEncrypt(toJsonString(license), generateKeyFromMac(license.mac))
        dir == getConfigDir(dirExists, mkpathOk)
        uuidSaved == saveUuidToConfig(license.uuid, anchorFile, createOk, openOk)
    IN IF isEmpty(license) THEN unchanged
       ELSE IF encrypted = <<>> THEN unchanged
       ELSE IF ~(dir /\ blobOpenOk) THEN [unchanged EXCEPT !.dir = dir]
       ELSE [ok |-> uuidSaved.ok, dir |-> dir,
             blob |-> IF uuidSaved.ok THEN File(encrypted) ELSE blobFile,
             anchor |-> uuidSaved.file]

\* saveLicense(license).  Gives the value returned and the config directory,
\* blob file and anchor file afterwards.
saveLicense(license, dirExists, blobFile, anchorFile, mkpathOk, blobOpenOk, createOk, openOk) ==
    LET unchanged == [ok |-> FALSE, dir |-> dirExists, blob |-> blobFile, anchor |-> anchorFile]
        json == toJsonString(license)
        key == generateKeyFromMac(license.mac)
        encrypted == xorEncrypt(json, key)
        dir == getConfigDir(dirExists, mkpathOk)
        uuidSaved == saveUuidToConfig(license.uuid, anchorFile, createOk, openOk)
    IN IF isEmpty(license) THEN unchanged
       ELSE IF encrypted = <<>> THEN unchanged
       ELSE IF ~(dir /\ blobOpenOk) THEN [unchanged EXCEPT !.dir = dir]
       ELSE [ok |-> uuidSaved.ok, dir |-> dir, blob |-> File(encrypted),
             anchor |-> uuidSaved.file]

\* A loader that tries the key of every interface until a record decodes.
loadLicenseAnyKey(blobFile, ifs) ==
    LET records == {fromJsonString(xorDecrypt(blobFile.text, generateKeyFromMac(ifs[i].hw))) :
                      i \in {j \in 1..Len(ifs) : Usable(ifs[j])}}
        decoded == {r \in records : ~isEmpty(r)}
    IN IF ~blobFile.exists \/ blobFile.text = <<>> \/ decoded = {} THEN EmptyLicense
       ELSE CHOOSE r \in decoded : TRUE

\* loadLicense() on the blob file, with the interfaces enumerated now.
loadLicense(blobFile, ifs) ==
    LET encrypted == blobFile.text
        currentMac == getFirstMacAddress(ifs)
        decrypted == xorDecrypt(encrypted, generateKeyFromMac(currentMac))
    IN IF ~blobFile.exists THEN EmptyLicense
       ELSE IF encrypted = <<>> THEN EmptyLicense
       ELSE IF currentMac = <<>> THEN EmptyLicense
       ELSE IF decrypted = <<>> THEN EmptyLicense
       ELSE fromJsonString(decrypted)

(***************************************************************************)
(* Validator                                                               *)
(***************************************************************************)

\* An expiry test that lets the instant of expiry pass: expires < now.
isLicenseExpiredStrictly(expires, clock) == Precedes(expires, clock)

isLicenseExpired(expires, clock) == AtMost(expires, clock)

\* Checks that accept an empty record.
ChecksFailOpen(license, configUuid, ifs, clock) ==
    IF isEmpty(license) THEN TRUE
    ELSE IF ~systemHasMacAddress(ifs, license.mac) THEN FALSE
    ELSE IF configUuid = <<>> \/ configUuid # license.uuid THEN FALSE
    ELSE IF isLicenseExpired(license.expires, clock) THEN FALSE
    ELSE TRUE

\* Checks that never look at the expiry.
ChecksWithoutExpiry(license, configUuid, ifs, clock) ==
    IF isEmpty(license) THEN FALSE
    ELSE IF ~systemHasMacAddress(ifs, license.mac) THEN FALSE
    ELSE IF configUuid = <<>> \/ configUuid # license.uuid THEN FALSE
    ELSE TRUE

\* Checks that never compare the anchor value.
ChecksWithoutAnchor(license, configUuid, ifs, clock) ==
    IF isEmpty(license) THEN FALSE
    ELSE IF ~systemHasMacAddress(ifs, license.mac) THEN FALSE
    ELSE IF isLicenseExpired(license.expires, clock) THEN FALSE
    ELSE TRUE

\* The checks hasValidLicense() makes on the record and the anchor value it
\* has loaded, in the order it makes them.
Checks(license, configUuid, ifs, clock) ==
    IF isEmpty(license) THEN FALSE
    ELSE IF ~systemHasMacAddress(ifs, license.mac) THEN FALSE
    ELSE IF configUuid = <<>> \/ configUuid # license.uuid THEN FALSE
    ELSE IF isLicenseExpired(license.expires, clock) THEN FALSE
    ELSE TRUE

\* The value hasValidLicense() returns for these files, interfaces and clock.
hasValidLicense(blobFile, anchorFile, ifs, clock) ==
    Checks(loadLicense(blobFile, ifs), loadUuidFromConfig(anchorFile), ifs, clock)

\* The calls hasValidLicense() makes, in order.
EvaluationOrder ==
    <<"loadLicense", "systemHasMacAddress", "loadUuidFromConfig", "isLicenseExpired">>

\* A validator that reads the anchor before it looks at the hardware.
EvaluationAnchorFirst(blobFile, anchorFile, ifs, clock) ==
    LET license == loadLicense(blobFile, ifs)
        configUuid == loadUuidFromConfig(anchorFile)
    IN IF isEmpty(license)
       THEN [valid |-> FALSE, steps |-> <<"loadLicense">>]
       ELSE IF configUuid = <<>> \/ configUuid # license.uuid
       THEN [valid |-> FALSE, steps |-> <<"loadLicense", "loadUuidFromConfig">>]
       ELSE IF ~systemHasMacAddress(ifs, license.mac)
       THEN [valid |-> FALSE,
             steps |-> <<"loadLicense", "loadUuidFromConfig", "systemHasMacAddress">>]
       ELSE [valid |-> ~isLicenseExpired(license.expires, clock),
             steps |-> <<"loadLicense", "loadUuidFromConfig", "systemHasMacAddress",
                         "isLicenseExpired">>]

\* hasValidLicense() statement by statement: the value it returns and the
\* calls it has made when it returns.
Evaluation(blobFile, anchorFile, ifs, clock) ==
    LET license == loadLicense(blobFile, ifs)
        configUuid == loadUuidFromConfig(anchorFile)
    IN IF isEmpty(license)
       THEN [valid |-> FALSE, steps |-> SubSeq(EvaluationOrder, 1, 1)]
       ELSE IF ~systemHasMacAddress(ifs, license.mac)
       THEN [valid |-> FALSE, steps |-> SubSeq(EvaluationOrder, 1, 2)]
       ELSE IF configUuid = <<>> \/ configUuid # license.uuid
       THEN [valid |-> FALSE, steps |-> SubSeq(EvaluationOrder, 1, 3)]
       ELSE [valid |-> ~isLicenseExpired(license.expires, clock),
             steps |-> EvaluationOrder]

(***************************************************************************)
(* Activation flow                                                         *)
(***************************************************************************)

LicenseDays == 30

\* A record built with the email as typed.
NewLicenseUntrimmed(email, mac, uuid, clock) ==
    [email |-> email, mac |-> mac, uuid |-> uuid,
     issued |-> clock, expires |-> AddDays(clock, LicenseDays)]

\* The record activateNewLicense builds.
NewLicense(email, mac, uuid, clock) ==
    [email |-> Trimmed(email), mac |-> mac, uuid |-> uuid,
     issued |-> clock, expires |-> AddDays(clock, LicenseDays)]

\* An activation that goes on without a hardware address.
activateNewLicenseWithoutMacCheck(email, uuid, ifs, clock, dirExists, blobFile, anchorFile, mkpathOk, blobOpenOk, createOk, openOk) ==
    saveLicense(NewLicense(email, getFirstMacAddress(ifs), uuid, clock), dirExists, blobFile,
                anchorFile, mkpathOk, blobOpenOk, createOk, openOk)

\* activateNewLicense(email), with uuid the value generateUuid() draws.
activateNewLicense(email, uuid, ifs, clock, dirExists, blobFile, anchorFile, mkpathOk, blobOpenOk, createOk, openOk) ==
    LET mac == getFirstMacAddress(ifs)
        unchanged == [ok |-> FALSE, dir |-> dirExists, blob |-> blobFile, anchor |-> anchorFile]
    IN IF mac = <<>> THEN unchanged
       ELSE IF uuid = <<>> THEN unchanged
       ELSE saveLicense(NewLicense(email, mac, uuid, clock), dirExists, blobFile, anchorFile,
                        mkpathOk, blobOpenOk, createOk, openOk)

(***************************************************************************)
(* The machine and what it may hold when the process starts                *)
(***************************************************************************)

MacA ==
    S(<<"A", "A", ":", "B", "B", ":", "C", "C", ":", "D", "D", ":", "E", "E", ":", "0", "1">>)

MacB ==
    S(<<"A", "A", ":", "B", "B", ":", "C", "C", ":", "D", "D", ":", "E", "E", ":", "0", "2">>)

\* An address no interface of the model has.
MacForeign ==
    S(<<"1", "2", ":", "3", "4", ":", "5", "6", ":", "7", "8", ":", "9", "A", ":", "B", "C">>)

Loopback == [loopback |-> TRUE, hw |-> ZeroMac]

Nic(mac) == [loopback |-> FALSE, hw |-> mac]

\* The interface lists the machine may report: MacA first, MacB first with
\* MacA behind it, and no usable address.
InterfaceLists ==
    { <<Loopback, Nic(MacA)>>,
      <<Nic(MacB), Nic(MacA)>>,
      <<Loopback, Nic(ZeroMac)>> }

\* A canonical 36-character UUID text made of one hexadecimal digit.
UuidOf(d) ==
    LET h == Ord(d)
        dash == Ord("-")
    IN Tup([i \in 1..UuidLength |-> IF i \in {9, 14, 19, 24} THEN dash ELSE h])

\* How many different values generateUuid() draws in the model.
MaxUuids == 2

UuidDigits == <<"1", "2", "3", "4">>

\* The values generateUuid() may draw.
Uuids == {UuidOf(UuidDigits[i]) : i \in 1..MaxUuids}

PlainEmail == S(<<"a", "@", "b">>)

\* The non-empty texts the email prompt may return with OK: an address
\* padded with white space, and white space alone.
Emails ==
    { S(<<" ", "a", "@", "b", "\n">>),
      S(<<" ">>) }

\* Day of the year on which licenses are issued in the model.
BaseDay == 10

Noon == 12 * 3600 * 1000

\* Clock values at which activateNewLicense runs: on a whole second, and one
\* millisecond after it.
ActivationInstants == {DateTime(BaseDay, Noon), DateTime(BaseDay, Noon + 1)}

\* Clock values at which hasValidLicense runs: those, one millisecond either
\* side of noon 30 days later, that noon, and 31 days after the later
\* activation instant.
Instants ==
    ActivationInstants \cup
    { DateTime(BaseDay + LicenseDays, Noon - 1),
      DateTime(BaseDay + LicenseDays, Noon),
      DateTime(BaseDay + LicenseDays, Noon + 1),
      DateTime(BaseDay + LicenseDays + 1, Noon + 1) }

\* The blob saveLicense writes for a record, keyed by keyMac.
Encoded(license, keyMac) ==
    File(xorEncrypt(toJsonString(license), generateKeyFromMac(keyMac)))

\* The record of an activation at noon of BaseDay on a machine whose first
\* address is mac.
OldLicense(mac) == NewLicense(PlainEmail, mac, UuidOf("1"), DateTime(BaseDay, Noon))

\* Blob files present at start: none, empty, not a blob, a record for MacA
\* keyed by MacA or by MacB, and a record for a foreign address keyed by MacA.
InitialBlobs ==
    { NoFile,
      File(<<>>),
      File(S(<<"x">>)),
      Encoded(OldLicense(MacA), MacA),
      Encoded(OldLicense(MacA), MacB),
      Encoded(OldLicense(MacForeign), MacA) }

\* Text in which one marker is embedded in the prefix of another.
NestedMarkers ==
    Cat(<<S(<<"#", " ", "P", "A", "Y", "W", "A", "L", "L", "_">>),
          MarkerPrefix, S(<<"a">>),
          S(<<"U", "U", "I", "D", ":", " ", "b", "e", "e", "f", "\n">>)>>)

\* Anchor files present at start: none, text without a marker, a marker
\* followed by text, two markers of which the second is that one, a marker
\* with a short id, and NestedMarkers.
InitialAnchors ==
    { NoFile,
      File(S(<<"x", "\n">>)),
      File(Cat(<<UuidComment(UuidOf("1")), S(<<"x", "\n">>)>>)),
      File(Cat(<<UuidComment(UuidOf("2")), UuidComment(UuidOf("1"))>>)),
      File(Cat(<<MarkerPrefix, S(<<"a", "b", "\n">>)>>)),
      File(NestedMarkers) }

\* What the file system lets an activation do: mkpath of a missing config
\* directory, opening the blob for writing, creating a missing anchor file,
\* opening the anchor read-write.  Everything succeeds, or one step fails.
IoOutcomes ==
    { [mkpathOk |-> TRUE,  blobOpenOk |-> TRUE,  createOk |-> TRUE,  openOk |-> TRUE],
      [mkpathOk |-> FALSE, blobOpenOk |-> TRUE,  createOk |-> TRUE,  openOk |-> TRUE],
      [mkpathOk |-> TRUE,  blobOpenOk |-> FALSE, createOk |-> TRUE,  openOk |-> TRUE],
      [mkpathOk |-> TRUE,  blobOpenOk |-> TRUE,  createOk |-> FALSE, openOk |-> TRUE],
      [mkpathOk |-> TRUE,  blobOpenOk |-> TRUE,  createOk |-> TRUE,  openOk |-> FALSE] }

(***************************************************************************)
(* State                                                                   *)
(***************************************************************************)

VARIABLES
    interfaces,   \* QNetworkInterface::allInterfaces()
    configDir,    \* the per-user config directory exists
    blob,         \* <config dir>/.license
    anchor,       \* <executable dir>/../test/CMakeLists.txt
    pc,           \* where the process is
    verdict,      \* what hasValidLicense() returned to main in this process
    last,         \* the latest call of activateNewLicense, for as long as
                  \* nobody else has changed the interfaces or the artifacts
    calls         \* calls of single functions that are in progress or have
                  \* returned, with their arguments, locals and results; the
                  \* gate process makes every call in one step and keeps none

vars == <<interfaces, configDir, blob, anchor, pc, verdict, last, calls>>

\* No call is kept.
NoCalls == <<>>

\* No call of activateNewLicense to speak of.
NoCall == [ok |-> FALSE, blobOpenable |-> FALSE, email |-> <<>>, uuid |-> <<>>, at |-> InvalidDateTime]

Init ==
    /\ interfaces \in InterfaceLists
    /\ blob \in InitialBlobs
    /\ configDir \in (IF blob.exists THEN {TRUE} ELSE BOOLEAN)
    /\ anchor \in InitialAnchors
    /\ pc = "start"
    /\ verdict = FALSE
    /\ last = NoCall
    /\ calls = NoCalls

(***************************************************************************)
(* The process: main's paywall entry point and the PaywallDialog gate      *)
(***************************************************************************)

\* The modal surfaces of the gate.
GateSurfaces == {"paywall", "prompt", "msg_ok", "msg_fail"}

\* Delays of the QTimer::singleShot calls, in milliseconds.
FirstShowDelay == 2000

RetryDelay == 500

\* Where main goes after the startup check: into the event loop with the main
\* window, with showPaywall on a timer when the license is not valid.
AfterCheck(valid) == IF valid THEN "running" ELSE "timer"

\* main: if (!Paywall::hasValidLicense()) QTimer::singleShot(2000, showPaywall);
\* then app->exec().  hasValidLicense resolves the blob path through
\* getConfigDir, which creates the config directory when it is missing.
StartupCheck ==
    /\ pc = "start"
    /\ \E mkpathOk \in BOOLEAN :
         configDir' = getConfigDir(configDir, mkpathOk)
    /\ \E clock \in Instants :
         verdict' = hasValidLicense(blob, anchor, interfaces, clock)
    /\ pc' = AfterCheck(verdict')
    /\ UNCHANGED <<interfaces, blob, anchor, last, calls>>

\* The pending single-shot timer fires: showPaywall() opens the dialog.
\* Only the timer set at startup calls showPaywall.
FirstTimerFires ==
    /\ pc = "timer"
    /\ pc' = "paywall"
    /\ UNCHANGED <<interfaces, configDir, blob, anchor, verdict, last, calls>>

TimerFires ==
    /\ pc \in {"timer", "retry"}
    /\ pc' = "paywall"
    /\ UNCHANGED <<interfaces, configDir, blob, anchor, verdict, last, calls>>

\* showPaywall: ACTIVATE LICENSE clicked: accept(), then showActivationDialog()
\* opens the email prompt.
ClickActivate ==
    /\ pc = "paywall"
    /\ pc' = "prompt"
    /\ UNCHANGED <<interfaces, configDir, blob, anchor, verdict, last, calls>>

\* showPaywall: EXIT clicked, or the dialog closed (result Rejected): quit().
ClickExit ==
    /\ pc = "paywall"
    /\ pc' = "terminated"
    /\ UNCHANGED <<interfaces, configDir, blob, anchor, verdict, last, calls>>

\* Where showActivationDialog goes when askForEmail returns false: back to
\* the event loop with showPaywall on the 500 ms timer.
\* A prompt handler that returns without scheduling showPaywall.
ReturnsWithoutTimer == "running"

AfterPromptRejected == "retry"

\* askForEmail returns false (cancelled, or OK with empty text):
\* showActivationDialog schedules showPaywall and returns.
PromptRejected ==
    /\ pc = "prompt"
    /\ pc' = AfterPromptRejected
    /\ UNCHANGED <<interfaces, configDir, blob, anchor, verdict, last, calls>>

\* askForEmail returns true with a non-empty text: activateNewLicense runs
\* and the result message opens.
PromptAccepted ==
    /\ pc = "prompt"
    /\ \E email \in Emails, uuid \in Uuids, clock \in ActivationInstants, io \in IoOutcomes :
         \E r \in {activateNewLicense(email, uuid, interfaces, clock, configDir, blob, anchor,
                                      io.mkpathOk, io.blobOpenOk, io.createOk, io.openOk)} :
            /\ configDir' = r.dir
            /\ blob' = r.blob
            /\ anchor' = r.anchor
            /\ last' = [ok |-> r.ok,
                        blobOpenable |-> (configDir \/ io.mkpathOk) /\ io.blobOpenOk,
                        email |-> Trimmed(email),
                        uuid |-> IF r.ok THEN uuid ELSE <<>>,
                        at |-> IF r.ok THEN clock ELSE InvalidDateTime]
            /\ pc' = IF r.ok THEN "msg_ok" ELSE "msg_fail"
    /\ UNCHANGED <<interfaces, verdict, calls>>

\* "License Activated" dismissed: startDetached(...), quit().
DismissActivated ==
    /\ pc = "msg_ok"
    /\ pc' = "terminated"
    /\ UNCHANGED <<interfaces, configDir, blob, anchor, verdict, last, calls>>

\* "Activation Failed" dismissed: showPaywall is scheduled again.
DismissFailed ==
    /\ pc = "msg_fail"
    /\ pc' = "retry"
    /\ UNCHANGED <<interfaces, configDir, blob, anchor, verdict, last, calls>>

\* The user quits the application while no modal surface blocks it.
UserQuit ==
    /\ pc \in {"running", "timer", "retry"}
    /\ pc' = "terminated"
    /\ UNCHANGED <<interfaces, configDir, blob, anchor, verdict, last, calls>>

\* A fresh instance starts (startDetached after activation, or the user).
Launch ==
    /\ pc = "terminated"
    /\ pc' = "start"
    /\ verdict' = FALSE
    /\ UNCHANGED <<interfaces, configDir, blob, anchor, last, calls>>

(***************************************************************************)
(* The environment                                                         *)
(***************************************************************************)

\* The machine's interfaces change.
ChangeInterfaces ==
    /\ interfaces' \in InterfaceLists \ {interfaces}
    /\ last' = NoCall
    /\ UNCHANGED <<configDir, blob, anchor, pc, verdict, calls>>

\* Someone deletes the blob file.
DeleteBlob ==
    /\ blob.exists
    /\ blob' = NoFile
    /\ last' = NoCall
    /\ UNCHANGED <<interfaces, configDir, anchor, pc, verdict, calls>>

\* Someone deletes the anchor file.
DeleteAnchor ==
    /\ anchor.exists
    /\ anchor' = NoFile
    /\ last' = NoCall
    /\ UNCHANGED <<interfaces, configDir, blob, pc, verdict, calls>>

Next ==
    \/ StartupCheck
    \/ TimerFires
    \/ ClickActivate
    \/ ClickExit
    \/ PromptRejected
    \/ PromptAccepted
    \/ DismissActivated
    \/ DismissFailed
    \/ UserQuit
    \/ Launch
    \/ ChangeInterfaces
    \/ DeleteBlob
    \/ DeleteAnchor

Spec == Init /\ [][Next]_vars

(***************************************************************************)
(* Properties                                                              *)
(***************************************************************************)

\* Some current interface has the record's address.
HardwareMatches(rec) == \E i \in 1..Len(interfaces) : interfaces[i].hw = rec.mac

\* The id of the marker that starts at position i of text s.
MarkerId(s, i) == SubSeq(s, i + Len(MarkerPrefix), IdRunEnd(s, i + Len(MarkerPrefix)))

\* The text of the anchor file, empty when there is none.
AnchorText == IF anchor.exists THEN anchor.text ELSE <<>>

\* The instant n milliseconds after t of the same day.
MsAfter(t, n) == DateTime(t.day, t.ms + n)

\* main has made its startup check and found the license invalid.
FoundInvalid == pc = "timer" /\ ~verdict

\* C1: whenever hasValidLicense returns true, the loaded record has a
\* non-empty email, hardware id and activation id, some current interface
\* has the record's hardware id, the anchor value is present and equals the
\* record's activation id, and the record expires strictly after the clock.
C1_ValidOnlyIfAllFour ==
    LET rec == loadLicense(blob, interfaces)
        value == loadUuidFromConfig(anchor)
    IN \A clock \in Instants :
         Checks(rec, value, interfaces, clock) =>
           /\ rec.email # <<>> /\ rec.mac # <<>> /\ rec.uuid # <<>>
           /\ HardwareMatches(rec)
           /\ value # <<>> /\ value = rec.uuid
           /\ Precedes(clock, rec.expires)

\* main found the license valid and runs, the files being such that the
\* license is valid at one clock value and no longer at another.
C1_Witness ==
    /\ pc = "running" /\ verdict
    /\ \E early, late \in Instants :
         /\ hasValidLicense(blob, anchor, interfaces, early)
         /\ ~hasValidLicense(blob, anchor, interfaces, late)

\* C2: after activateNewLicense returned true and nobody else changed the
\* interfaces or the two artifacts, hasValidLicense returns true at every
\* clock value earlier than 30 days after issuance, and false at every clock
\* value 31 days after issuance or later.
C2_ValidForThirtyDays ==
    last.ok =>
      LET rec == loadLicense(blob, interfaces)
          value == loadUuidFromConfig(anchor)
      IN \A clock \in Instants :
           /\ Precedes(clock, AddDays(last.at, LicenseDays))
                => Checks(rec, value, interfaces, clock)
           /\ AtMost(AddDays(last.at, LicenseDays + 1), clock)
                => ~Checks(rec, value, interfaces, clock)

\* C3: from the invalid startup verdict until the process terminates, a
\* modal gate surface (paywall dialog, email prompt or result message) is
\* open.
C3_GateAlwaysOpen ==
    (pc \notin {"start", "terminated"} /\ ~verdict) => pc \in GateSurfaces

\* C4: when the blob file does not exist or is empty, hasValidLicense
\* returns false whatever the anchor file, the interfaces and the clock are.
C4_AbsentBlobInvalid ==
    (~blob.exists \/ blob.text = <<>>) =>
      \A clock \in Instants : ~hasValidLicense(blob, anchor, interfaces, clock)

\* main found the license invalid with no blob file, although the anchor
\* holds an id and the machine has a usable address.
C4_Witness ==
    /\ FoundInvalid
    /\ ~blob.exists
    /\ loadUuidFromConfig(anchor) # <<>>
    /\ getFirstMacAddress(interfaces) # <<>>

\* C5: when the loaded record's hardware id is the address of no current
\* interface, hasValidLicense returns false, also when the anchor value
\* equals the record's activation id and the record has not expired.
C5_ForeignHardwareInvalid ==
    LET rec == loadLicense(blob, interfaces)
        value == loadUuidFromConfig(anchor)
    IN (~isEmpty(rec) /\ ~HardwareMatches(rec)) =>
         \A clock \in Instants : ~Checks(rec, value, interfaces, clock)

\* main found the license invalid for a record of a foreign address whose
\* anchor matches and which has yet to expire.
C5_Witness ==
    LET rec == loadLicense(blob, interfaces)
    IN /\ FoundInvalid
       /\ ~isEmpty(rec)
       /\ ~HardwareMatches(rec)
       /\ loadUuidFromConfig(anchor) = rec.uuid
       /\ \E clock \in Instants : Precedes(clock, rec.expires)

\* C6: for a decodable, unexpired, hardware-matching blob, hasValidLicense
\* returns false when the anchor file is missing, holds no marker, or holds
\* a marker whose id differs from the record's activation id.
C6_DifferingMarkerInvalid ==
    LET rec == loadLicense(blob, interfaces)
        value == loadUuidFromConfig(anchor)
        starts == MarkerStarts(AnchorText)
    IN (/\ ~isEmpty(rec)
        /\ HardwareMatches(rec)
        /\ \/ ~anchor.exists
           \/ starts = {}
           \/ \E i \in starts : MarkerId(AnchorText, i) # rec.uuid) =>
         \A clock \in Instants :
           Precedes(clock, rec.expires) => ~Checks(rec, value, interfaces, clock)

\* C6, amended: the same when the anchor file is missing, holds no marker,
\* or the id of its first marker differs from the record's activation id.
C6_FirstMarkerDiffersInvalid ==
    LET rec == loadLicense(blob, interfaces)
        value == loadUuidFromConfig(anchor)
        starts == MarkerStarts(AnchorText)
    IN (/\ ~isEmpty(rec)
        /\ HardwareMatches(rec)
        /\ \/ ~anchor.exists
           \/ starts = {}
           \/ \E i \in starts :
                /\ \A j \in starts : i <= j
                /\ MarkerId(AnchorText, i) # rec.uuid) =>
         \A clock \in Instants :
           Precedes(clock, rec.expires) => ~Checks(rec, value, interfaces, clock)

\* main found the license invalid for a decodable, hardware-matching record
\* that has yet to expire, the anchor holding the record's id in a marker
\* that is not the first.
C6_Witness ==
    LET rec == loadLicense(blob, interfaces)
        starts == MarkerStarts(AnchorText)
    IN /\ FoundInvalid
       /\ ~isEmpty(rec)
       /\ HardwareMatches(rec)
       /\ \E clock \in Instants : Precedes(clock, rec.expires)
       /\ \E i, j \in starts :
            /\ i < j
            /\ MarkerId(AnchorText, i) # rec.uuid
            /\ MarkerId(AnchorText, j) = rec.uuid

\* C7: with the other three checks passing, a record that expires at the
\* clock value is invalid, one that expires one millisecond before it is
\* invalid, and one that expires one millisecond after it is valid.
C7_ExpiryBoundary ==
    LET rec == loadLicense(blob, interfaces)
        value == loadUuidFromConfig(anchor)
    IN (/\ ~isEmpty(rec)
        /\ rec.mac # <<>> /\ HardwareMatches(rec)
        /\ value # <<>> /\ value = rec.uuid
        /\ rec.expires.valid) =>
         \A clock \in Instants :
           /\ rec.expires = clock => ~Checks(rec, value, interfaces, clock)
           /\ MsAfter(rec.expires, 1) = clock => ~Checks(rec, value, interfaces, clock)
           /\ rec.expires = MsAfter(clock, 1) => Checks(rec, value, interfaces, clock)

\* main found the license invalid for a record that passes the other three
\* checks and whose expiry, the instant before it and the instant after it
\* are clock values.
C7_Witness ==
    LET rec == loadLicense(blob, interfaces)
        value == loadUuidFromConfig(anchor)
    IN /\ FoundInvalid
       /\ ~isEmpty(rec)
       /\ HardwareMatches(rec)
       /\ value = rec.uuid
       /\ rec.expires.valid
       /\ {rec.expires, MsAfter(rec.expires, 1)} \subseteq Instants
       /\ \E clock \in Instants : rec.expires = MsAfter(clock, 1)

\* C8: after a successful activation, whatever the anchor file held before,
\* the anchor file holds exactly one marker, and its id is the activation id
\* of that activation.
C8_OneMarkerAfterActivation ==
    last.ok =>
      /\ Cardinality(MarkerStarts(AnchorText)) = 1
      /\ \A i \in MarkerStarts(AnchorText) : MarkerId(AnchorText, i) = last.uuid

\* The step in which activateNewLicense runs and the result message opens.
ActivationReturns == pc = "prompt" /\ pc' \in {"msg_ok", "msg_fail"}

C10_ValidatorReadOnly ==
    [][(pc = "start" /\ pc' # "start") =>
         (blob' = blob /\ anchor' = anchor /\ configDir' = configDir)]_vars

(***************************************************************************)
(* Single functions, called on inputs drawn from bounded sets              *)
(***************************************************************************)

\* How many calls a behaviour of the specifications below makes.
MaxCalls == 2

\* The texts of at most n pieces.
RECURSIVE TextsOf(_, _)
TextsOf(pieces, n) ==
    IF n = 0 THEN {<<>>}
    ELSE LET shorter == TextsOf(pieces, n - 1)
         IN shorter \cup {t \o p : t \in shorter, p \in pieces}

\* What anchor files are made of: a marker line, a marker with a short id
\* and no line end, a letter, a blank, a line end.
AnchorPieces ==
    { UuidComment(UuidOf("1")),
      MarkerPrefix \o S(<<"a", "b">>),
      S(<<"x">>),
      S(<<" ">>),
      S(<<"\n">>) }

\* Pieces per anchor file.
MaxPieces == 3

AnchorFiles == {NoFile} \cup {File(t) : t \in TextsOf(AnchorPieces, MaxPieces)}

InitAnchor ==
    /\ interfaces = <<>>
    /\ configDir = FALSE
    /\ blob = NoFile
    /\ anchor \in AnchorFiles
    /\ pc = "terminated"
    /\ verdict = FALSE
    /\ last = NoCall
    /\ calls = NoCalls

\* saveUuidToConfig(uuid) is called; the call is kept with the file it found.
WriteAnchor ==
    /\ Len(calls) < MaxCalls
    /\ \E uuid \in Uuids, createOk \in BOOLEAN, openOk \in BOOLEAN :
         \E r \in {saveUuidToConfig(uuid, anchor, createOk, openOk)} :
            /\ anchor' = r.file
            /\ calls' = Append(calls, [fn |-> "saveUuidToConfig", uuid |-> uuid,
                                       prior |-> anchor, ok |-> r.ok])
    /\ UNCHANGED <<interfaces, configDir, blob, pc, verdict, last>>

NextAnchor == WriteAnchor

SpecAnchor == InitAnchor /\ [][NextAnchor]_vars

\* s without the markers that start at starts, each removed with the line
\* end that closes it and with nothing else.
RECURSIVE WithoutMarkerLines(_, _, _)
WithoutMarkerLines(orig, work, starts) ==
    IF starts = {} THEN work
    ELSE LET i == CHOOSE x \in starts : \A y \in starts : y <= x
             idEnd == IdRunEnd(orig, i + Len(MarkerPrefix))
             e == IF idEnd < Len(orig) /\ orig[idEnd + 1] = Ord("\n")
                  THEN idEnd + 1 ELSE idEnd
         IN WithoutMarkerLines(orig,
                               SubSeq(work, 1, i - 1) \o SubSeq(work, e + 1, Len(work)),
                               starts \ {i})

\* C11: after saveUuidToConfig(id) has returned true, the anchor file is the
\* new marker line followed by the content it found with its marker lines
\* removed and every other character, white space after a marker included,
\* in place.
C11_MergeKeepsOtherText ==
    \A k \in 1..Len(calls) :
      (k = Len(calls) /\ calls[k].ok) =>
        LET prior == IF calls[k].prior.exists THEN calls[k].prior.text ELSE <<>>
        IN anchor.text =
             UuidComment(calls[k].uuid) \o
             WithoutMarkerLines(prior, prior, MarkerStarts(prior))

\* What plaintexts and keys are made of.
PlainPieces == {S(<<"a">>), S(<<"b">>), S(<<"~">>)}

KeyPieces == {S(<<"a">>), S(<<"b">>)}

\* Characters per plaintext and per key.
MaxPlain == 3

MaxKey == 3

Plaintexts == TextsOf(PlainPieces, MaxPlain)

Keys == TextsOf(KeyPieces, MaxKey)

InitCodec ==
    /\ interfaces = <<>>
    /\ configDir = FALSE
    /\ blob = NoFile
    /\ anchor = NoFile
    /\ pc = "terminated"
    /\ verdict = FALSE
    /\ last = NoCall
    /\ calls = NoCalls

\* xorEncrypt(data, key) is called.
Encrypt ==
    /\ calls = NoCalls
    /\ \E data \in Plaintexts, key \in Keys :
         calls' = <<[fn |-> "xorEncrypt", data |-> data, key |-> key,
                     out |-> xorEncrypt(data, key)]>>
    /\ UNCHANGED <<interfaces, configDir, blob, anchor, pc, verdict, last>>

\* xorDecrypt(data, key) is called on what xorEncrypt returned.
Decrypt ==
    /\ Len(calls) = 1
    /\ \E key \in Keys :
         calls' = Append(calls, [fn |-> "xorDecrypt", data |-> calls[1].out, key |-> key,
                                 out |-> xorDecrypt(calls[1].out, key)])
    /\ UNCHANGED <<interfaces, configDir, blob, anchor, pc, verdict, last>>

NextCodec ==
    \/ Encrypt
    \/ Decrypt

SpecCodec == InitCodec /\ [][NextCodec]_vars

\* xorDecrypt has been called on the result of xorEncrypt.
Decoded == Len(calls) = 2

\* The byte of key k that the codec uses at position i.
KeyByteAt(k, i) == k[((i - 1) % Len(k)) + 1]

\* C12: for a non-empty plaintext p and a non-empty key k,
\* xorDecrypt(xorEncrypt(p, k), k) is p.
C12_RoundTrip ==
    (/\ Decoded
     /\ calls[1].data # <<>>
     /\ calls[1].key # <<>>
     /\ calls[2].key = calls[1].key) =>
      calls[2].out = calls[1].data

\* A plaintext of MaxPlain characters has gone through xorEncrypt and
\* xorDecrypt with one key of two characters.
C12_Witness ==
    /\ Decoded
    /\ Len(calls[1].data) = MaxPlain
    /\ Len(calls[1].key) = 2
    /\ calls[2].key = calls[1].key
    /\ calls[1].out # calls[1].data

\* C13: for a plaintext p and distinct non-empty keys k1 and k2,
\* xorDecrypt(xorEncrypt(p, k1), k2) differs from p.
C13_WrongKeyDiffers ==
    (/\ Decoded
     /\ calls[1].key # <<>>
     /\ calls[2].key # <<>>
     /\ calls[2].key # calls[1].key) =>
      calls[2].out # calls[1].data

\* C13, amended: for a plaintext p and non-empty keys k1 and k2,
\* xorDecrypt(xorEncrypt(p, k1), k2) differs from p exactly when the two keys,
\* each repeated, differ at one of the positions of p.
C13_DiffersWhereKeysDiffer ==
    (/\ Decoded
     /\ calls[1].key # <<>>
     /\ calls[2].key # <<>>) =>
      (calls[2].out # calls[1].data <=>
         \E i \in 1..Len(calls[1].data) :
            KeyByteAt(calls[1].key, i) # KeyByteAt(calls[2].key, i))

\* A plaintext of MaxPlain characters has been encoded with one key and
\* decoded with a different key of the same length, to another text.
C13_Witness ==
    /\ Decoded
    /\ Len(calls[1].data) = MaxPlain
    /\ calls[1].key # <<>>
    /\ Len(calls[2].key) = Len(calls[1].key)
    /\ calls[2].key # calls[1].key
    /\ calls[2].out # calls[1].data

(***************************************************************************)
(* The gate                                                                *)
(***************************************************************************)

\* The states of the gate, by the position of the process.
Checking == {"start"}

Valid == {"running"}

Blocked == {"timer", "retry", "paywall"}

Activating == {"prompt", "msg_ok", "msg_fail"}

Exiting == {"terminated"}

\* C14: the gate only takes the transitions Checking -> {Valid, Blocked},
\* Blocked -> {Activating, Exiting}, Activating -> {termination for the restart
\* after a success, Blocked}; every dismissal of the paywall dialog leads to
\* the email prompt or to termination, and the process reaches normal running
\* only from the check at startup.
C14_GateTransitions ==
    [][/\ pc \in Checking => pc' \in Checking \cup Valid \cup Blocked
       /\ pc \in Blocked => pc' \in Blocked \cup Activating \cup Exiting
       /\ pc \in Activating => pc' \in Activating \cup Exiting \cup Blocked
       /\ pc = "paywall" /\ pc' # "paywall" => pc' \in {"prompt", "terminated"}
       /\ pc = "msg_ok" /\ pc' # "msg_ok" => pc' \in Exiting
       /\ pc' \in Exiting /\ pc \in Activating => pc = "msg_ok"
       /\ pc' \in Valid => pc \in Checking \cup Valid
       /\ pc \in Valid => pc' \in Valid \cup Exiting]_vars

\* The paywall dialog is open again after a failed activation.
C14_Witness ==
    /\ pc = "paywall"
    /\ last # NoCall
    /\ ~last.ok

\* The event loop runs a single-shot timer's callback once its delay is over.
SpecFair == Spec /\ WF_vars(TimerFires)

\* showActivationDialog has set the 500 ms timer for showPaywall.
RetryScheduled == pc = "retry"

\* The step of showActivationDialog in which askForEmail returns false.
PromptRejectedStep == pc = "prompt" /\ pc' = "retry"

\* The step makes no call of activateNewLicense: nothing it writes or returns
\* has changed.
NoActivation == UNCHANGED <<configDir, blob, anchor, last>>

\* C15: whenever the email prompt is rejected or activateNewLicense returns
\* false, the paywall dialog is eventually shown again, the timer firing
\* fairly; a rejected prompt makes no call of activateNewLicense.
C15_RetryShowsPaywall ==
    /\ RetryScheduled ~> pc = "paywall"
    /\ [][PromptRejectedStep => NoActivation]_vars

\* C15, amended: whenever the email prompt is rejected or activateNewLicense
\* returns false, eventually the paywall dialog is shown again or the process
\* has terminated, the timer firing fairly; a rejected prompt makes no call of
\* activateNewLicense.
C15_RetryShowsPaywallOrExits ==
    /\ RetryScheduled ~> pc \in {"paywall", "terminated"}
    /\ [][PromptRejectedStep => NoActivation]_vars

\* The retry timer is pending in a process that has made no call of
\* activateNewLicense.
C15_Witness ==
    /\ RetryScheduled
    /\ last = NoCall
    /\ ~verdict

(***************************************************************************)
(* Records                                                                 *)
(***************************************************************************)

\* Records with each of email, mac and uuid set or unset.
Records ==
    { [email |-> email, mac |-> mac, uuid |-> uuid,
       issued |-> DateTime(BaseDay, Noon),
       expires |-> AddDays(DateTime(BaseDay, Noon), LicenseDays)] :
         email \in {<<>>, PlainEmail}, mac \in {<<>>, MacA}, uuid \in {<<>>, UuidOf("1")} }

InitRecord ==
    /\ interfaces \in InterfaceLists
    /\ configDir = TRUE
    /\ blob = NoFile
    /\ anchor = NoFile
    /\ pc = "terminated"
    /\ verdict = FALSE
    /\ last = NoCall
    /\ calls = NoCalls

\* saveLicense(license) is called.
SaveRecord ==
    /\ Len(calls) < MaxCalls
    /\ \E license \in Records, io \in IoOutcomes :
         \E r \in {saveLicense(license, configDir, blob, anchor,
                               io.mkpathOk, io.blobOpenOk, io.createOk, io.openOk)} :
            /\ configDir' = r.dir
            /\ blob' = r.blob
            /\ anchor' = r.anchor
            /\ calls' = Append(calls, [fn |-> "saveLicense", license |-> license,
                                       empty |-> isEmpty(license), ok |-> r.ok])
    /\ UNCHANGED <<interfaces, pc, verdict, last>>

\* hasValidLicense() is called: it loads the record and tests isEmpty first.
CheckRecord ==
    /\ Len(calls) < MaxCalls
    /\ \E clock \in Instants :
         \E license \in {loadLicense(blob, interfaces)} :
            /\ verdict' = Checks(license, loadUuidFromConfig(anchor), interfaces, clock)
            /\ calls' = Append(calls, [fn |-> "hasValidLicense", license |-> license,
                                       empty |-> isEmpty(license), ok |-> verdict'])
    /\ UNCHANGED <<interfaces, configDir, blob, anchor, pc, last>>

NextRecord ==
    \/ SaveRecord
    \/ CheckRecord

SpecRecord == InitRecord /\ [][NextRecord]_vars

\* One of email, hardware id and activation id of the record is unset.
SomeFieldUnset(license) ==
    license.email = <<>> \/ license.mac = <<>> \/ license.uuid = <<>>

\* C16: saveLicense and the first step of hasValidLicense treat a record as
\* empty if and only if at least one of its email, hardware id and
\* activation id is unset or empty.
C16_EmptyIffSomeFieldUnset ==
    \A k \in 1..Len(calls) : calls[k].empty <=> SomeFieldUnset(calls[k].license)

(***************************************************************************)
(* Activation                                                              *)
(***************************************************************************)

\* The record in the blob file, as the machine that wrote it reads it.
PersistedRecord == loadLicense(blob, interfaces)

\* C17: the record persisted by activateNewLicense has expires equal to issued
\* plus 30 days, and issued equal to the clock value at activation.
C17_PersistedDates ==
    last.ok =>
      /\ PersistedRecord.expires = AddDays(PersistedRecord.issued, LicenseDays)
      /\ PersistedRecord.issued = last.at

\* Every interface is a loopback, or has an empty or all-zero hardware address.
NoUsableInterface ==
    \A i \in 1..Len(interfaces) :
       \/ interfaces[i].loopback
       \/ interfaces[i].hw = <<>>
       \/ interfaces[i].hw = ZeroMac

\* C18: when there is no non-loopback interface with a non-empty, non-zero
\* hardware address, activateNewLicense returns false and leaves the blob
\* file, the anchor file and the config directory as they were.
C18_NoInterfaceNoWrite ==
    [][ActivationReturns /\ NoUsableInterface =>
         /\ pc' = "msg_fail"
         /\ UNCHANGED <<blob, anchor, configDir>>]_vars

\* activateNewLicense has returned false on a machine without such an
\* interface, where the blob file could have been written.
C18_Witness ==
    /\ pc = "msg_fail"
    /\ NoUsableInterface
    /\ last # NoCall
    /\ last.blobOpenable

(***************************************************************************)
(* Several processes activating on the same files                          *)
(***************************************************************************)

\* In this specification calls[i] is the call of activateNewLicense that
\* process i is making: the id it drew, the statement it is at, the anchor
\* content it has read, and the value it returned.
RaceInstant == DateTime(BaseDay, Noon)

RaceBlobs == {NoFile, Encoded(OldLicense(MacA), MacA)}

RaceAnchors ==
    { NoFile,
      File(S(<<"x", "\n">>)),
      File(Cat(<<UuidComment(UuidOf("1")), S(<<"x", "\n">>)>>)) }

InitRace ==
    /\ interfaces \in InterfaceLists
    /\ configDir = TRUE
    /\ blob \in RaceBlobs
    /\ anchor \in RaceAnchors
    /\ pc = "terminated"
    /\ verdict = FALSE
    /\ last = NoCall
    /\ calls = NoCalls

Returned(ok) == [at |-> "returned", ok |-> ok]

\* Process i moves on to statement at, or returns ok.
Moves(i, to) == calls' = [calls EXCEPT ![i] = to @@ @]

\* A process calls activateNewLicense: it resolves the hardware address,
\* draws its id and builds the record.
RaceBegin ==
    /\ pc = "terminated"
    /\ Len(calls) < MaxCalls
    /\ \E uuid \in Uuids :
         /\ \A i \in 1..Len(calls) : calls[i].uuid # uuid
         /\ calls' = Append(calls,
               [fn |-> "activateNewLicense", uuid |-> uuid, content |-> <<>>,
                at |-> IF getFirstMacAddress(interfaces) = <<>> THEN "returned"
                       ELSE "saveLicense",
                ok |-> FALSE])
    /\ UNCHANGED <<interfaces, configDir, blob, anchor, pc, verdict, last>>

\* saveLicense opens the blob file, writes the encoded record and closes it.
RaceWriteBlob ==
    /\ \E i \in 1..Len(calls), blobOpenOk \in BOOLEAN :
         /\ calls[i].at = "saveLicense"
         /\ IF blobOpenOk
            THEN /\ blob' = Encoded(NewLicense(PlainEmail, getFirstMacAddress(interfaces),
                                               calls[i].uuid, RaceInstant),
                                    getFirstMacAddress(interfaces))
                 /\ Moves(i, [at |-> "exists"])
            ELSE /\ blob' = blob
                 /\ Moves(i, Returned(FALSE))
    /\ UNCHANGED <<interfaces, configDir, anchor, pc, verdict, last>>

\* saveUuidToConfig tests whether the anchor file exists.
RaceFindAnchor ==
    /\ \E i \in 1..Len(calls) :
         /\ calls[i].at = "exists"
         /\ Moves(i, [at |-> IF anchor.exists THEN "open" ELSE "create"])
    /\ UNCHANGED <<interfaces, configDir, blob, anchor, pc, verdict, last>>

\* saveUuidToConfig creates the anchor file it found missing: open for
\* writing, which empties the file, and close.
RaceCreateAnchor ==
    /\ \E i \in 1..Len(calls), createOk \in BOOLEAN :
         /\ calls[i].at = "create"
         /\ IF createOk
            THEN /\ anchor' = File(<<>>)
                 /\ Moves(i, [at |-> "open"])
            ELSE /\ anchor' = anchor
                 /\ Moves(i, Returned(FALSE))
    /\ UNCHANGED <<interfaces, configDir, blob, pc, verdict, last>>

\* saveUuidToConfig opens the anchor file and reads it whole.
RaceReadAnchor ==
    /\ \E i \in 1..Len(calls), openOk \in BOOLEAN :
         /\ calls[i].at = "open"
         /\ IF openOk
            THEN Moves(i, [at |-> "write", content |-> anchor.text])
            ELSE Moves(i, Returned(FALSE))
    /\ UNCHANGED <<interfaces, configDir, blob, anchor, pc, verdict, last>>

\* saveUuidToConfig replaces the file by the content it read, merged with its
\* marker, and returns true; so do saveLicense and activateNewLicense.
RaceWriteAnchor ==
    /\ \E i \in 1..Len(calls) :
         /\ calls[i].at = "write"
         /\ anchor' = saveUuidToConfig(calls[i].uuid, File(calls[i].content), TRUE, TRUE).file
         /\ Moves(i, Returned(TRUE))
    /\ UNCHANGED <<interfaces, configDir, blob, pc, verdict, last>>

\* Every call made has returned.
AllReturned == \A i \in 1..Len(calls) : calls[i].at = "returned"

\* At least two calls were made and every call returned true.
AllReturnedTrue ==
    /\ Len(calls) >= 2
    /\ \A i \in 1..Len(calls) : calls[i].at = "returned" /\ calls[i].ok

\* The application starts again once the calls have returned.
RaceLaunch ==
    /\ calls # NoCalls
    /\ AllReturned
    /\ Launch

\* The new instance makes its startup check.
RaceStartupCheck ==
    /\ AllReturned
    /\ StartupCheck

NextRace ==
    \/ RaceBegin
    \/ RaceWriteBlob
    \/ RaceFindAnchor
    \/ RaceCreateAnchor
    \/ RaceReadAnchor
    \/ RaceWriteAnchor
    \/ RaceLaunch
    \/ RaceStartupCheck

SpecRace == InitRace /\ [][NextRace]_vars

\* The activation id of the record in the blob differs from the id of the
\* anchor's marker.
IdsDiffer ==
    /\ PersistedRecord.uuid # <<>>
    /\ loadUuidFromConfig(anchor) # <<>>
    /\ PersistedRecord.uuid # loadUuidFromConfig(anchor)

\* C19: processes that run activateNewLicense concurrently on the same files
\* can all return true and leave a blob whose activation id differs from the
\* id of the anchor's marker: hasValidLicense then returns false at every
\* instant, and the startup check of the next instance finds no valid license.
C19_RaceLeavesInvalid ==
    (AllReturnedTrue /\ IdsDiffer) =>
      /\ \A clock \in Instants : ~hasValidLicense(blob, anchor, interfaces, clock)
      /\ pc \in {"running", "timer"} => ~verdict /\ pc = "timer"

\* Two calls have returned true, the ids differ, and the next instance has
\* made its startup check.
C19_Witness ==
    /\ AllReturnedTrue
    /\ IdsDiffer
    /\ pc = "timer"

(***************************************************************************)
(* The order of the validator's checks                                     *)
(***************************************************************************)

InitValidate ==
    /\ interfaces \in InterfaceLists
    /\ configDir = TRUE
    /\ blob \in InitialBlobs
    /\ anchor \in InitialAnchors
    /\ pc = "terminated"
    /\ verdict = FALSE
    /\ last = NoCall
    /\ calls = NoCalls

\* hasValidLicense() is called.
Validate ==
    /\ calls = NoCalls
    /\ \E clock \in Instants :
         \E r \in {Evaluation(blob, anchor, interfaces, clock)} :
            /\ verdict' = r.valid
            /\ calls' = Append(calls, [fn |-> "hasValidLicense", clock |-> clock,
                                       steps |-> r.steps, valid |-> r.valid])
    /\ UNCHANGED <<interfaces, configDir, blob, anchor, pc, last>>

NextValidate == Validate

SpecValidate == InitValidate /\ [][NextValidate]_vars

\* The blob step succeeds: the blob decodes to a record that is not empty.
BlobStepPasses == PersistedRecord.email # <<>>

\* The hardware step succeeds: an interface has the record's address.
HardwareStepPasses == PersistedRecord.mac # <<>> /\ HardwareMatches(PersistedRecord)

\* The anchor step succeeds: the anchor's marker carries the record's id.
AnchorStepPasses ==
    /\ loadUuidFromConfig(anchor) # <<>>
    /\ loadUuidFromConfig(anchor) = PersistedRecord.uuid

\* s is the first n calls of EvaluationOrder.
FirstCalls(s, n) == s = SubSeq(EvaluationOrder, 1, n)

\* C20: hasValidLicense makes its checks in the order blob load and decode,
\* hardware match, anchor match, expiry, and stops at the first that fails:
\* the anchor is not read when the blob step or the hardware step fails, and
\* the expiry is not compared when the anchor step fails.
C20_ChecksInOrder ==
    \A k \in 1..Len(calls) :
       LET c == calls[k]
       IN /\ c.valid = hasValidLicense(blob, anchor, interfaces, c.clock)
          /\ ~BlobStepPasses => FirstCalls(c.steps, 1)
          /\ BlobStepPasses /\ ~HardwareStepPasses => FirstCalls(c.steps, 2)
          /\ BlobStepPasses /\ HardwareStepPasses /\ ~AnchorStepPasses => FirstCalls(c.steps, 3)
          /\ BlobStepPasses /\ HardwareStepPasses /\ AnchorStepPasses => FirstCalls(c.steps, 4)
          /\ c.valid => FirstCalls(c.steps, 4)

\* hasValidLicense has returned at the hardware step while an anchor file
\* with a marker was there to read.
C20_Witness ==
    /\ calls # NoCalls
    /\ FirstCalls(calls[1].steps, 2)
    /\ loadUuidFromConfig(anchor) # <<>>

(***************************************************************************)
(* The key of the blob                                                     *)
(***************************************************************************)

\* The hardware addresses the machines of the model have.
KnownMacs == {MacA, MacB}

\* The record the blob file holds for the key derived from hardware id h.
RecordUnder(h) ==
    IF blob.exists THEN fromJsonString(xorDecrypt(blob.text, generateKeyFromMac(h)))
    ELSE EmptyLicense

\* The blob file is one that an activation with hardware id h has written.
WrittenWith(h) ==
    /\ RecordUnder(h).email # <<>>
    /\ RecordUnder(h).mac = h
    /\ RecordUnder(h).uuid # <<>>

\* The currently resolved hardware id is not h, while h is still the address
\* of an interface.
ResolvedIdChangedFrom(h) ==
    /\ getFirstMacAddress(interfaces) # h
    /\ \E i \in 1..Len(interfaces) : interfaces[i].hw = h

\* C21: for a blob written by activation with hardware id H, if the currently
\* resolved id differs from H then hasValidLicense returns false at the blob
\* step (the record it loads is empty), even when H is still the address of
\* an interface.
C21_ChangedIdFailsAtBlobStep ==
    \A h \in KnownMacs :
       (WrittenWith(h) /\ ResolvedIdChangedFrom(h)) => isEmpty(PersistedRecord)

\* C21, amended: for a blob written by activation with hardware id H, if the
\* currently resolved id differs from H then hasValidLicense returns false at
\* every instant, whatever the anchor; the step that rejects is the blob step
\* or, when the text decoded under the current key is still a record with an
\* email, a later one.
C21_ChangedIdInvalid ==
    \A h \in KnownMacs :
       (WrittenWith(h) /\ ResolvedIdChangedFrom(h)) =>
          LET license == PersistedRecord
              configUuid == loadUuidFromConfig(anchor)
          IN \A clock \in Instants : ~Checks(license, configUuid, interfaces, clock)

\* The startup check has rejected a blob written with MacA on a machine that
\* resolves another id, has MacA on a second interface, and whose anchor
\* carries the record's activation id.
C21_Witness ==
    /\ pc = "timer"
    /\ WrittenWith(MacA)
    /\ ResolvedIdChangedFrom(MacA)
    /\ loadUuidFromConfig(anchor) = RecordUnder(MacA).uuid

(***************************************************************************)
(* Reading the anchor                                                      *)
(***************************************************************************)

\* loadUuidFromConfig() is called.
LoadAnchor ==
    /\ calls = NoCalls
    /\ calls' = <<[fn |-> "loadUuidFromConfig", out |-> loadUuidFromConfig(anchor)]>>
    /\ UNCHANGED <<interfaces, configDir, blob, anchor, pc, verdict, last>>

NextAnchorRead == LoadAnchor

SpecAnchorRead == InitAnchor /\ [][NextAnchorRead]_vars

\* The position at which the first match of the marker pattern starts.
FirstMarker == CHOOSE i \in MarkerStarts(AnchorText) : \A j \in MarkerStarts(AnchorText) : i <= j

\* C22: loadUuidFromConfig returns the trimmed captured group of the first
\* match of the marker pattern, whatever its length, and returns the empty
\* text exactly when the file is absent or has no match.
C22_ReturnsFirstCapture ==
    calls # NoCalls =>
      /\ calls[1].out = IF MarkerStarts(AnchorText) = {} THEN <<>>
                        ELSE Trimmed(MarkerId(AnchorText, FirstMarker))
      /\ calls[1].out = <<>> <=> MarkerStarts(AnchorText) = {}

(***************************************************************************)
(* A failed anchor write                                                   *)
(***************************************************************************)

\* The call of activateNewLicense recorded in c got as far as writing the
\* blob, and returned false: the anchor write failed.
AnchorWriteFailed(c) ==
    /\ c.email # <<>>
    /\ c.blobOpenable
    /\ ~c.ok

InterfaceKinds ==
    { Loopback, [loopback |-> TRUE, hw |-> MacA],
      Nic(MacA), Nic(MacB), Nic(ZeroMac), Nic(<<>>) }

\* Interfaces per machine.
MaxInterfaces == 3

InitResolve ==
    /\ interfaces \in UNION {[1..n -> InterfaceKinds] : n \in 0..MaxInterfaces}
    /\ configDir = FALSE
    /\ blob = NoFile
    /\ anchor = NoFile
    /\ pc = "terminated"
    /\ verdict = FALSE
    /\ last = NoCall
    /\ calls = NoCalls

\* getFirstMacAddress() is called.
Resolve ==
    /\ calls = NoCalls
    /\ calls' = <<[fn |-> "getFirstMacAddress", out |-> getFirstMacAddress(interfaces)]>>
    /\ UNCHANGED <<interfaces, configDir, blob, anchor, pc, verdict, last>>

NextResolve == Resolve

SpecResolve == InitResolve /\ [][NextResolve]_vars

\* Interface i is not loopback and has an address that is neither empty nor
\* all zero.
Eligible(i) ==
    /\ ~interfaces[i].loopback
    /\ interfaces[i].hw # <<>>
    /\ interfaces[i].hw # ZeroMac

\* C24: getFirstMacAddress returns the hardware address of the first interface
\* in enumeration order that is not loopback and whose address is neither
\* empty nor 00:00:00:00:00:00, and returns the empty text exactly when there
\* is no such interface.
C24_FirstEligibleAddress ==
    calls # NoCalls =>
      /\ calls[1].out = <<>> <=> ~\E i \in 1..Len(interfaces) : Eligible(i)
      /\ \A i \in 1..Len(interfaces) :
            (Eligible(i) /\ \A j \in 1..(i - 1) : ~Eligible(j)) =>
               calls[1].out = interfaces[i].hw

\* getFirstMacAddress has returned the address of the third interface, after
\* a loopback interface with an address and an interface with the zero address.
C24_Witness ==
    /\ calls # NoCalls
    /\ Len(interfaces) = MaxInterfaces
    /\ interfaces[1].loopback /\ interfaces[1].hw = MacA
    /\ interfaces[2] = Nic(ZeroMac)
    /\ calls[1].out = MacB

(***************************************************************************)
(* The hardware step after the blob step                                   *)
(***************************************************************************)

\* C25: for a blob written by activateNewLicense, whenever the blob step of
\* hasValidLicense succeeds the hardware step succeeds too (the interfaces
\* being the same for both): the hardware step never rejects such a blob.
C25_HardwareNeverRejects ==
    \A h \in KnownMacs :
       (WrittenWith(h) /\ ~isEmpty(PersistedRecord)) =>
          systemHasMacAddress(interfaces, PersistedRecord.mac)

\* C25, amended: for a blob written by activateNewLicense with the hardware id
\* that is resolved now, the blob step of hasValidLicense succeeds and the
\* hardware step succeeds too.  (For a blob written with another id the blob
\* step may succeed and the hardware step reject.)
C25_HardwarePassesForResolvedId ==
    \A h \in KnownMacs :
       (WrittenWith(h) /\ getFirstMacAddress(interfaces) = h) =>
          /\ ~isEmpty(PersistedRecord)
          /\ systemHasMacAddress(interfaces, PersistedRecord.mac)

\* The startup check has accepted a blob written with the id resolved now,
\* which is the address of the second interface.
C25_Witness ==
    /\ pc = "running"
    /\ verdict
    /\ WrittenWith(getFirstMacAddress(interfaces))
    /\ interfaces[1].loopback
    /\ HardwareStepPasses

(***************************************************************************)
(* Activation with a blank email                                           *)
(***************************************************************************)

\* C26: the prompt accepts text that is white space only; activateNewLicense
\* trims it and, the trimmed email being empty, returns false and leaves the
\* blob file and the anchor file as they were.  Every blob an activation
\* writes decodes to a record whose email, hardware id and activation id are
\* not empty.
C26_NoRecordWithoutEmail ==
    [][ActivationReturns =>
         /\ last'.email = <<>> =>
               /\ pc' = "msg_fail"
               /\ UNCHANGED <<blob, anchor, configDir>>
         /\ blob' # blob =>
               \A license \in {loadLicense(blob', interfaces')} :
                  /\ license.email # <<>>
                  /\ license.mac # <<>>
                  /\ license.uuid # <<>>]_vars

\* activateNewLicense has returned false for an email of white space, on a
\* machine where the blob file could have been written.
C26_Witness ==
    /\ pc = "msg_fail"
    /\ last.email = <<>>
    /\ last.blobOpenable
    /\ ~NoUsableInterface

(***************************************************************************)
(* The restart after an activation                                         *)
(***************************************************************************)

\* In this specification pc is the position of the process that activated,
\* and calls holds the instance it has started, while that instance is
\* between its launch and its single-instance check.

\* app->hasAnotherInstance(): qBittorrent is already running.
hasAnotherInstance(running) == running

\* The activating process is still running: it has not exited.
OldProcessRunning == pc # "terminated"

\* The success message is dismissed: startDetached launches a fresh instance
\* and quit() asks the event loop of this process to end.
RestartDetached ==
    /\ pc = "msg_ok"
    /\ pc' = "quitting"
    /\ calls' = <<[fn |-> "main", at |-> "hasAnotherInstance"]>>
    /\ UNCHANGED <<interfaces, configDir, blob, anchor, verdict, last>>

\* The activating process leaves its event loops, shuts down and exits.
OldProcessExits ==
    /\ pc = "quitting"
    /\ pc' = "terminated"
    /\ UNCHANGED <<interfaces, configDir, blob, anchor, verdict, last, calls>>

\* The fresh instance makes its single-instance check: it calls the main
\* instance and returns EXIT_SUCCESS, or goes on to the license check.
NewProcessChecksInstance ==
    /\ calls # NoCalls
    /\ calls[1].at = "hasAnotherInstance"
    /\ IF hasAnotherInstance(OldProcessRunning)
       THEN /\ calls' = <<[fn |-> "main", at |-> "exited"]>>
            /\ UNCHANGED <<pc, verdict>>
       ELSE /\ calls' = NoCalls
            /\ pc' = "start"
            /\ verdict' = FALSE
    /\ UNCHANGED <<interfaces, configDir, blob, anchor, last>>

\* The user starts the application when no instance runs.
LaunchByUser ==
    /\ pc = "terminated"
    /\ calls \in {NoCalls, <<[fn |-> "main", at |-> "exited"]>>}
    /\ pc' = "start"
    /\ verdict' = FALSE
    /\ calls' = NoCalls
    /\ UNCHANGED <<interfaces, configDir, blob, anchor, last>>

NextRestart ==
    \/ StartupCheck
    \/ TimerFires
    \/ ClickActivate
    \/ ClickExit
    \/ PromptRejected
    \/ PromptAccepted
    \/ DismissFailed
    \/ UserQuit
    \/ RestartDetached
    \/ OldProcessExits
    \/ NewProcessChecksInstance
    \/ LaunchByUser

SpecRestart == Init /\ [][NextRestart]_vars

\* C27: after a successful activation the process launches a fresh instance
\* and quits, and however the shutdown of the one and the start of the other
\* interleave, the fresh instance is not turned away by the single-instance
\* check: it goes on to the startup license check.
C27_RestartReachesCheck ==
    \A k \in 1..Len(calls) : calls[k].at # "exited"

====
